---- MODULE Spec2Model ----
(***************************************************************************)
(* Model of the kprobe engine (kernel/src/kprobes/kprobes.rs), of the       *)
(* breakpoint-slot allocator (kernel/src/kprobes/arch/riscv/breakpoint.rs), *)
(* of the program loader (kernel/src/bpf/program.rs) and of the tracepoint  *)
(* registry (kernel/src/bpf/tracepoints.rs).                                *)
(*                                                                         *)
(* Memory is modelled at halfword (2-byte) granularity: every length the   *)
(* code handles is a multiple of BREAKPOINT_LENGTH (breakpoint.rs:20).     *)
(* The halfword of original kernel text at address x holds the value x, so  *)
(* that every original halfword is distinct and none equals C_EBREAK.       *)
(*                                                                         *)
(* Every function body holds its spin lock (KPROBES, FREE_BREAKPOINTS)     *)
(* from its first line to its return, so each call is one atomic action.   *)
(***************************************************************************)
EXTENDS Integers, FiniteSets, Sequences, TLC

\* breakpoint.rs:10-12
BREAKPOINT_LENGTH == 2
C_EBREAK == 36866

\* ------------------------------------------------------------ bounds
\* CPUs that may be inside a probe traversal at the same time.
NCpu == 2
\* First-hit traps counted per probe lifetime.
MaxHits == 2
\* Instruction-buffer regions the kernel can hand out.
NBuf == 2
\* Slots per breakpoint page (PAGE_SIZE / BREAKPOINT_LENGTH) in Spec.
PageSlots == 3
\* Frames the frame allocator can hand out.
MaxFrames == 3

\* Symbols of an object's symbol table, and map bindings of a load.
MaxSyms == 2
\* Objects (programs and maps) in the object table.
MaxObjs == 2

\* The page size of the scenario S4 (rcore_memory::PAGE_SIZE on riscv).
RISCV_PAGE_SIZE == 4096

VARIABLES
  KPROBES,          \* kprobes.rs:31  addr -> KProbe
  ADDR_MAP,         \* kprobes.rs:32  trailing-breakpoint address -> addr
  mem,              \* kernel text and instruction buffers, per halfword
  FREE_BREAKPOINTS, \* breakpoint.rs:35
  BREAKPOINT_PAGES, \* breakpoint.rs:36  base -> BreakpointPage
  ebreakFrames,     \* frames filled with C_EBREAK by inject_breakpoints
  PAGE_SIZE,        \* rcore_memory::PAGE_SIZE, fixed at boot
  inUse,            \* slots handed out by alloc_breakpoint and not yet freed
  stepping,         \* per instruction buffer: the CPUs executing inside it
  nPre,             \* per address: first-hit traps of the current probe
  nPost,            \* per address: completions of the current probe
  last,             \* the last call: its operation, argument and outcome
  BPF_OBJECTS,      \* bpf: fd -> BpfObject
  ATTACHED_PROGS,   \* tracepoints.rs:47  Tracepoint -> Vec<Arc<BpfProgram>>
  KRETPROBES,       \* kretprobe registry: addr -> outstanding instances
  attachOrder,      \* per tracepoint: the programs in the order their attach succeeded
  nKret,            \* per address: successful register_kretprobe calls
  ret,              \* the last call into the bpf layer and what it returned
                    \* (with the arguments of a load, the tracepoint of an
                    \* attach or of a hit)
  holder,           \* per spin lock: the CPU that holds it (0: free)
  task              \* per CPU: the function it is in, the lock operations it
                    \* has still to do, and the locks it holds in the order
                    \* it took them

vars == <<KPROBES, ADDR_MAP, mem, FREE_BREAKPOINTS, BREAKPOINT_PAGES,
          ebreakFrames, PAGE_SIZE, inUse, stepping, nPre, nPost, last,
          BPF_OBJECTS, ATTACHED_PROGS, KRETPROBES, attachOrder, nKret, ret,
          holder, task>>

engineVars == <<KPROBES, ADDR_MAP, mem, stepping, nPre, nPost>>
allocVars == <<FREE_BREAKPOINTS, BREAKPOINT_PAGES, ebreakFrames, inUse>>
bpfVars == <<BPF_OBJECTS, ATTACHED_PROGS, KRETPROBES, attachOrder, nKret, ret>>
lockVars == <<holder, task>>

\* ------------------------------------------------------------ helpers
Min(S) == CHOOSE x \in S : \A y \in S : x <= y

\* BTreeMap::remove
MapRemove(m, k) == [x \in DOMAIN m \ {k} |-> m[x]]
\* BTreeMap::insert (replaces the value of a key already present)
MapInsert(m, k, v) == [x \in DOMAIN m \cup {k} |-> IF x = k THEN v ELSE m[x]]

\* The record of a call.  A behaviour that starts untraced keeps of every call
\* only whether it panicked.
Result(op, arg, ok, err, out) ==
  IF last.op = "untraced"
  THEN [last EXCEPT !.err = err]
  ELSE [op |-> op, arg |-> arg, ok |-> ok, err |-> err, out |-> out]

\* A panic halts the kernel.
Running == last.err # "panic" /\ ret.err # "panic"

\* ------------------------------------------------------------ the kernel image
\* The instructions of the kernel text that callers probe: start address ->
\* length and single-step class, as get_insn_length and get_insn_type decode
\* them.
KernelText ==
  (16 :> [len |-> 4, type |-> "Execute"]) @@
  (20 :> [len |-> 2, type |-> "Emulate"]) @@
  (22 :> [len |-> 2, type |-> "Execute"]) @@
  (24 :> [len |-> 4, type |-> "Unsupported"])

TextAddrs == DOMAIN KernelText
TextHalfwords ==
  UNION {{a + 2 * i : i \in 0..(KernelText[a].len \div 2 - 1)} : a \in TextAddrs}

\* Instruction buffers: disjoint fixed-size regions, each wide enough for the
\* widest instruction followed by one breakpoint.  (A breakpoint slot of the
\* allocator below is BREAKPOINT_LENGTH bytes wide and holds a breakpoint
\* only.)
InsnBufSize == 8
InsnBufBase == 64
BufAddrs == {InsnBufBase + i * InsnBufSize : i \in 0..(NBuf - 1)}
BufHalfwords == UNION {{b + 2 * i : i \in 0..(InsnBufSize \div 2 - 1)} : b \in BufAddrs}

\* Frames of the frame allocator, PAGE_SIZE aligned.
FirstFrame == 32
FrameBases == {(FirstFrame + i) * PAGE_SIZE : i \in 0..(MaxFrames - 1)}

\* get_insn_length / get_insn_type decode the instruction found in memory.
insn_of(m, addr) == IF m[addr] \in TextAddrs THEN m[addr] ELSE 0
get_insn_length(m, addr) ==
  IF insn_of(m, addr) = 0 THEN BREAKPOINT_LENGTH ELSE KernelText[insn_of(m, addr)].len
get_insn_type(m, addr) ==
  IF insn_of(m, addr) = 0 THEN "Unsupported" ELSE KernelText[insn_of(m, addr)].type

\* byte_copy(dst, src, len)
byte_copy(m, dst, src, len) ==
  [x \in DOMAIN m |->
     IF \E i \in 0..(len \div 2 - 1) : x = dst + 2 * i THEN m[src + (x - dst)] ELSE m[x]]

\* inject_breakpoints(addr, Some(len)), breakpoint.rs:14-28
inject_breakpoints(m, addr, len) ==
  [x \in DOMAIN m |->
     IF \E i \in 0..(len \div BREAKPOINT_LENGTH - 1) : x = addr + i * BREAKPOINT_LENGTH
     THEN C_EBREAK ELSE m[x]]

\* ------------------------------------------------------------ breakpoint.rs
BREAKPOINTS_PER_PAGE == PAGE_SIZE \div BREAKPOINT_LENGTH

\* addr & !(PAGE_SIZE - 1), for PAGE_SIZE-aligned frames
page_base(addr) == addr - (addr % PAGE_SIZE)

SlotsOf(base) == {base + i * BREAKPOINT_LENGTH : i \in 0..(BREAKPOINTS_PER_PAGE - 1)}

\* alloc_frame() hands out a frame that is not allocated.
FreeFrames == FrameBases \ DOMAIN BREAKPOINT_PAGES

\* alloc_breakpoint whose loop over a fresh page runs one slot too far.
alloc_breakpoint_outcomes_past_end ==
  IF FREE_BREAKPOINTS # {}
  THEN LET addr == Min(FREE_BREAKPOINTS)
           base == page_base(addr)
       IN {[free |-> FREE_BREAKPOINTS \ {addr},
            pages |-> [BREAKPOINT_PAGES EXCEPT ![base].nr_free = @ - 1],
            filled |-> ebreakFrames,
            addr |-> addr]}
  ELSE {[free |-> FREE_BREAKPOINTS \cup
                    {base + i * BREAKPOINT_LENGTH : i \in 1..BREAKPOINTS_PER_PAGE},
         pages |-> MapInsert(BREAKPOINT_PAGES, base, [nr_free |-> BREAKPOINTS_PER_PAGE - 1]),
         filled |-> ebreakFrames \cup {base},
         addr |-> base] : base \in FreeFrames}

\* alloc_breakpoint, breakpoint.rs:40-62: the outcomes [free, pages, filled, addr].
alloc_breakpoint_outcomes ==
  IF FREE_BREAKPOINTS # {}
  THEN LET addr == Min(FREE_BREAKPOINTS)
           base == page_base(addr)
       IN {[free |-> FREE_BREAKPOINTS \ {addr},
            pages |-> [BREAKPOINT_PAGES EXCEPT ![base].nr_free = @ - 1],
            filled |-> ebreakFrames,
            addr |-> addr]}
  ELSE {[free |-> FREE_BREAKPOINTS \cup (SlotsOf(base) \ {base}),
         pages |-> MapInsert(BREAKPOINT_PAGES, base, [nr_free |-> BREAKPOINTS_PER_PAGE - 1]),
         filled |-> ebreakFrames \cup {base},
         addr |-> base] : base \in FreeFrames}

\* free_breakpoint that releases a fully free page without taking its slots
\* out of the free set.
free_breakpoint_result_keep_slots(addr) ==
  LET free1 == FREE_BREAKPOINTS \cup {addr}
      base == page_base(addr)
      nr == BREAKPOINT_PAGES[base].nr_free + 1
  IN IF nr = BREAKPOINTS_PER_PAGE /\ Cardinality(DOMAIN BREAKPOINT_PAGES) > 1
     THEN [free |-> free1, pages |-> MapRemove(BREAKPOINT_PAGES, base)]
     ELSE [free |-> free1, pages |-> [BREAKPOINT_PAGES EXCEPT ![base].nr_free = nr]]

\* free_breakpoint that releases every fully free page, the last one too.
free_breakpoint_result_no_keep_one(addr) ==
  LET free1 == FREE_BREAKPOINTS \cup {addr}
      base == page_base(addr)
      nr == BREAKPOINT_PAGES[base].nr_free + 1
  IN IF nr = BREAKPOINTS_PER_PAGE
     THEN [free |-> free1 \ SlotsOf(base), pages |-> MapRemove(BREAKPOINT_PAGES, base)]
     ELSE [free |-> free1, pages |-> [BREAKPOINT_PAGES EXCEPT ![base].nr_free = nr]]

\* free_breakpoint that releases a page one slot early, while its last slot
\* is still held.
free_breakpoint_result_one_early(addr) ==
  LET free1 == FREE_BREAKPOINTS \cup {addr}
      base == page_base(addr)
      nr == BREAKPOINT_PAGES[base].nr_free + 1
  IN IF nr >= BREAKPOINTS_PER_PAGE - 1 /\ Cardinality(DOMAIN BREAKPOINT_PAGES) > 1
     THEN [free |-> free1 \ SlotsOf(base), pages |-> MapRemove(BREAKPOINT_PAGES, base)]
     ELSE [free |-> free1, pages |-> [BREAKPOINT_PAGES EXCEPT ![base].nr_free = nr]]

\* free_breakpoint, breakpoint.rs:64-80: [free, pages].
free_breakpoint_result(addr) ==
  LET free1 == FREE_BREAKPOINTS \cup {addr}
      base == page_base(addr)
      nr == BREAKPOINT_PAGES[base].nr_free + 1
  IN IF nr = BREAKPOINTS_PER_PAGE /\ Cardinality(DOMAIN BREAKPOINT_PAGES) > 1
     THEN [free |-> free1 \ SlotsOf(base), pages |-> MapRemove(BREAKPOINT_PAGES, base)]
     ELSE [free |-> free1, pages |-> [BREAKPOINT_PAGES EXCEPT ![base].nr_free = nr]]

\* A caller takes a slot.  alloc_frame().unwrap() needs a frame when the free
\* set is empty: without one there is no outcome.
AllocBreakpoint ==
  /\ Running
  /\ \E o \in alloc_breakpoint_outcomes :
       /\ FREE_BREAKPOINTS' = o.free
       /\ BREAKPOINT_PAGES' = o.pages
       /\ ebreakFrames' = o.filled
       /\ inUse' = inUse \cup {o.addr}
       /\ last' = Result("alloc", 0, TRUE, "", o.addr)
  /\ UNCHANGED <<engineVars, PAGE_SIZE>>

\* A caller gives back a slot it holds.
FreeBreakpoint(addr) ==
  /\ Running
  /\ addr \in inUse
  /\ LET r == free_breakpoint_result(addr)
     IN /\ FREE_BREAKPOINTS' = r.free
        /\ BREAKPOINT_PAGES' = r.pages
  /\ inUse' = inUse \ {addr}
  /\ last' = Result("free", addr, TRUE, "", 0)
  /\ UNCHANGED <<engineVars, ebreakFrames, PAGE_SIZE>>

\* ------------------------------------------------------------ kprobes.rs
\* KProbe::new that drops the emulate flag.
KProbe_new_no_emulate(addr, buf, emulate) ==
  [addr |-> addr, insn_buf |-> buf, insn_len |-> get_insn_length(mem, addr),
   active_count |-> 0, emulate |-> FALSE]

\* KProbe::new, kprobes.rs:36-51
KProbe_new(addr, buf, emulate) ==
  [addr |-> addr, insn_buf |-> buf, insn_len |-> get_insn_length(mem, addr),
   active_count |-> 0, emulate |-> emulate]

\* InstructionBuffer::new: a region no live probe owns.
FreeBufs == BufAddrs \ {KPROBES[a].insn_buf : a \in DOMAIN KPROBES}

\* InstructionBuffer::copy_in / copy_out / add_breakpoint
copy_in(m, buf, offset, src, len) == byte_copy(m, buf + offset, src, len)
copy_out(m, buf, offset, dst, len) == byte_copy(m, dst, buf + offset, len)
add_breakpoint(m, buf, offset) == inject_breakpoints(m, buf + offset, BREAKPOINT_LENGTH)

\* KProbe::arm, kprobes.rs:53-60
arm(m, probe) ==
  inject_breakpoints(
    add_breakpoint(copy_in(m, probe.insn_buf, 0, probe.addr, probe.insn_len),
                   probe.insn_buf, probe.insn_len),
    probe.addr, probe.insn_len)

\* KProbe::disarm that restores one breakpoint unit only.
disarm_short(m, probe) == copy_out(m, probe.insn_buf, 0, probe.addr, BREAKPOINT_LENGTH)

\* KProbe::disarm, kprobes.rs:62-66
disarm(m, probe) == copy_out(m, probe.insn_buf, 0, probe.addr, probe.insn_len)

\* register_kprobe without the contains_key test: a second call arms again.
register_kprobe_again(addr) ==
  /\ IF get_insn_type(mem, addr) = "Unsupported"
     THEN /\ last' = Result("register", addr, FALSE, "not supported", 0)
          /\ UNCHANGED <<KPROBES, ADDR_MAP, mem, nPre, nPost>>
     ELSE \E buf \in FreeBufs \cup {KPROBES[a].insn_buf : a \in DOMAIN KPROBES \cap {addr}} :
            LET probe == KProbe_new(addr, buf, get_insn_type(mem, addr) = "Emulate")
                next_bp_addr == probe.insn_buf + probe.insn_len
            IN /\ mem' = arm(mem, probe)
               /\ ADDR_MAP' = MapInsert(ADDR_MAP, next_bp_addr, addr)
               /\ KPROBES' = MapInsert(KPROBES, addr, probe)
               /\ nPre' = [nPre EXCEPT ![addr] = 0]
               /\ nPost' = [nPost EXCEPT ![addr] = 0]
               /\ last' = Result("register", addr, TRUE, "", 0)
  /\ UNCHANGED <<stepping, allocVars, PAGE_SIZE>>

\* register_kprobe, kprobes.rs:106-136
register_kprobe(addr) ==
  /\ IF addr \in DOMAIN KPROBES
     THEN /\ last' = Result("register", addr, FALSE, "already exist", 0)
          /\ UNCHANGED <<KPROBES, ADDR_MAP, mem, nPre, nPost>>
     ELSE IF get_insn_type(mem, addr) = "Unsupported"
     THEN /\ last' = Result("register", addr, FALSE, "not supported", 0)
          /\ UNCHANGED <<KPROBES, ADDR_MAP, mem, nPre, nPost>>
     ELSE \E buf \in FreeBufs :
            LET probe == KProbe_new(addr, buf, get_insn_type(mem, addr) = "Emulate")
                next_bp_addr == probe.insn_buf + probe.insn_len
            IN /\ mem' = arm(mem, probe)
               /\ ADDR_MAP' = MapInsert(ADDR_MAP, next_bp_addr, addr)
               /\ KPROBES' = MapInsert(KPROBES, addr, probe)
               /\ nPre' = [nPre EXCEPT ![addr] = 0]
               /\ nPost' = [nPost EXCEPT ![addr] = 0]
               /\ last' = Result("register", addr, TRUE, "", 0)
  /\ UNCHANGED <<stepping, allocVars, PAGE_SIZE>>

\* unregister_kprobe without the active_count test.
unregister_kprobe_active(addr) ==
  /\ IF addr \in DOMAIN KPROBES
     THEN /\ mem' = disarm(mem, KPROBES[addr])
          /\ KPROBES' = MapRemove(KPROBES, addr)
          /\ nPre' = [nPre EXCEPT ![addr] = 0]
          /\ nPost' = [nPost EXCEPT ![addr] = 0]
          /\ last' = Result("unregister", addr, TRUE, "", 0)
     ELSE /\ last' = Result("unregister", addr, FALSE, "", 0)
          /\ UNCHANGED <<KPROBES, mem, nPre, nPost>>
  /\ UNCHANGED <<ADDR_MAP, stepping, allocVars, PAGE_SIZE>>

\* unregister_kprobe, kprobes.rs:138-155.  Removing the probe from the map
\* drops it, and with it its instruction buffer.
unregister_kprobe(addr) ==
  /\ IF addr \in DOMAIN KPROBES
     THEN IF KPROBES[addr].active_count > 0
          THEN /\ last' = Result("unregister", addr, FALSE, "still active", 0)
               /\ UNCHANGED <<KPROBES, mem, nPre, nPost>>
          ELSE /\ mem' = disarm(mem, KPROBES[addr])
               /\ KPROBES' = MapRemove(KPROBES, addr)
               /\ nPre' = [nPre EXCEPT ![addr] = 0]
               /\ nPost' = [nPost EXCEPT ![addr] = 0]
               /\ last' = Result("unregister", addr, TRUE, "", 0)
     ELSE /\ last' = Result("unregister", addr, FALSE, "", 0)
          /\ UNCHANGED <<KPROBES, mem, nPre, nPost>>
  /\ UNCHANGED <<ADDR_MAP, stepping, allocVars, PAGE_SIZE>>

\* emulate_execution: the PC after the emulated instruction, the next
\* instruction or the target of the branch.
emulate_execution(probe) == {probe.addr + probe.insn_len, Min(TextAddrs)}

\* An outcome of kprobe_trap_handler: the registry, the value returned, the
\* trap frame's PC, the address of the probe whose pre-handler ran and of the
\* probe whose traversal completed (0: none), and whether the kernel panicked.
Outcome(kprobes, handled, pc, pre, post, panic) ==
  [kprobes |-> kprobes, handled |-> handled, pc |-> pc,
   pre |-> pre, post |-> post, panic |-> panic]

\* The first-hit branch that leaves the trap frame's PC where it is.
first_hit_no_redirect(pc) ==
  LET probe == KPROBES[pc]
  IN IF probe.emulate
     THEN {Outcome([KPROBES EXCEPT ![pc].active_count = (@ + 1) - 1], TRUE, p, pc, pc, FALSE)
           : p \in emulate_execution(probe)}
     ELSE {Outcome([KPROBES EXCEPT ![pc].active_count = @ + 1], TRUE, pc, pc, 0, FALSE)}

\* kprobes.rs:73-92: the breakpoint of a probe is hit.
first_hit(pc) ==
  LET probe == KPROBES[pc]
  IN IF probe.emulate
     THEN {Outcome([KPROBES EXCEPT ![pc].active_count = (@ + 1) - 1], TRUE, p, pc, pc, FALSE)
           : p \in emulate_execution(probe)}
     ELSE {Outcome([KPROBES EXCEPT ![pc].active_count = @ + 1], TRUE, probe.insn_buf,
                   pc, 0, FALSE)}

\* The post-step branch that leaves active_count as it is.
post_step_no_decrement(pc) ==
  LET orig_addr == ADDR_MAP[pc]
  IN IF orig_addr \notin DOMAIN KPROBES
     THEN {Outcome(KPROBES, FALSE, pc, 0, 0, TRUE)}
     ELSE {Outcome(KPROBES, TRUE, orig_addr + KPROBES[orig_addr].insn_len,
                   0, orig_addr, FALSE)}

\* The post-step branch that resumes at the probed address itself.
post_step_same_insn(pc) ==
  LET orig_addr == ADDR_MAP[pc]
  IN IF orig_addr \notin DOMAIN KPROBES
     THEN {Outcome(KPROBES, FALSE, pc, 0, 0, TRUE)}
     ELSE IF KPROBES[orig_addr].active_count = 0
     THEN {Outcome(KPROBES, FALSE, pc, 0, 0, TRUE)}
     ELSE {Outcome([KPROBES EXCEPT ![orig_addr].active_count = @ - 1], TRUE,
                   orig_addr, 0, orig_addr, FALSE)}

\* kprobes.rs:94-102: the breakpoint behind a displaced instruction is hit.
\* unwrap() panics when the probe is gone; active_count is a usize, and
\* taking 1 from 0 panics (overflow checks) or wraps to usize::MAX: either way
\* the counter is lost, and the outcome is recorded as a panic.
post_step(pc) ==
  LET orig_addr == ADDR_MAP[pc]
  IN IF orig_addr \notin DOMAIN KPROBES
     THEN {Outcome(KPROBES, FALSE, pc, 0, 0, TRUE)}
     ELSE IF KPROBES[orig_addr].active_count = 0
     THEN {Outcome(KPROBES, FALSE, pc, 0, 0, TRUE)}
     ELSE {Outcome([KPROBES EXCEPT ![orig_addr].active_count = @ - 1], TRUE,
                   orig_addr + KPROBES[orig_addr].insn_len, 0, orig_addr, FALSE)}

\* kprobe_trap_handler, kprobes.rs:70-104, for a trap frame whose PC is pc.
kprobe_trap_handler(pc) ==
  IF pc \in DOMAIN KPROBES THEN first_hit(pc)
  ELSE IF pc \in DOMAIN ADDR_MAP THEN post_step(pc)
  ELSE {Outcome(KPROBES, FALSE, pc, 0, 0, FALSE)}

\* The CPUs are interchangeable: stepping[b] counts those that were redirected
\* to instruction buffer b and have not yet trapped behind it; the others run
\* kernel code.
Busy == LET Sum[S \in SUBSET BufAddrs] ==
              IF S = {} THEN 0 ELSE LET b == Min(S) IN stepping[b] + Sum[S \ {b}]
        IN Sum[BufAddrs]

\* breakpoint_handler, mod.rs:75-80, on a CPU that came from `from` (an
\* instruction buffer, or 0: kernel code) with the trap frame's PC at pc.  The
\* CPU resumes at the trap frame's PC: inside an instruction buffer, or back in
\* the kernel.
breakpoint_handler(from, pc) ==
  \E o \in kprobe_trap_handler(pc) :
    /\ KPROBES' = o.kprobes
    /\ stepping' = [b \in BufAddrs |->
                      stepping[b] - (IF b = from THEN 1 ELSE 0)
                                  + (IF o.handled /\ b = o.pc THEN 1 ELSE 0)]
    /\ nPre' = [a \in TextAddrs |-> IF a = o.pre THEN nPre[a] + 1 ELSE nPre[a]]
    /\ nPost' = [a \in TextAddrs |-> IF a = o.post THEN nPost[a] + 1 ELSE nPost[a]]
    /\ last' = Result("trap", pc, o.handled, IF o.panic THEN "panic" ELSE "", o.pc)
    /\ UNCHANGED <<ADDR_MAP, mem, allocVars, PAGE_SIZE>>

\* The halfword a CPU fetches at pc is a breakpoint.
IsBreakpoint(pc) ==
  \/ pc \in DOMAIN mem /\ mem[pc] = C_EBREAK
  \/ page_base(pc) \in ebreakFrames

\* A CPU running kernel code fetches a breakpoint: a probed instruction, or a
\* slot a caller holds.
BreakpointTrap(pc) ==
  /\ Running
  /\ Busy < NCpu
  /\ pc \in TextAddrs \cup inUse
  /\ IsBreakpoint(pc)
  /\ pc \in DOMAIN KPROBES => nPre[pc] < MaxHits
  /\ breakpoint_handler(0, pc)

\* A CPU executes the displaced instruction of the buffer it was redirected to
\* and fetches what follows it.
SingleStep(buf) ==
  /\ Running
  /\ stepping[buf] > 0
  /\ LET pc == buf + get_insn_length(mem, buf)
     IN /\ IsBreakpoint(pc)
        /\ breakpoint_handler(buf, pc)

\* ------------------------------------------------------------ bpf/program.rs
\* Names of the symbols of an object file and of the map bindings.
SymNames == {"m1", "m2"}

\* Sequences over S of length at most n.
SeqsUpTo(S, n) == UNION {[1..k -> S] : k \in 0..n}

\* An object file as bpf_program_load_ex reads it: whether ElfFile::new
\* accepts the bytes, the machine type of the header, the names of the symbol
\* table in index order (symtab[i] is the name of symbol index i - 1) when
\* there is a .symtab section, the symbol indices (in TLA+ numbering) that
\* R_BPF_64_64 relocation entries refer to, and whether there is a .text section.
ElfFile(valid, machine, has_symtab, symtab, rels, has_text) ==
  [valid |-> valid, machine |-> machine, has_symtab |-> has_symtab,
   symtab |-> symtab, rels |-> rels, has_text |-> has_text]

\* The objects handed to the loader: one for every early return, and the
\* well-formed ones with every symbol table and at most one relocation.
ElfFiles ==
  {ElfFile(FALSE, "BPF", FALSE, <<>>, {}, FALSE),
   ElfFile(TRUE, "RISCV", TRUE, <<>>, {}, TRUE),
   ElfFile(TRUE, "BPF", FALSE, <<>>, {}, TRUE),
   ElfFile(TRUE, "BPF", TRUE, <<>>, {}, FALSE)}
  \cup {ElfFile(TRUE, "BPF", TRUE, st, rels, TRUE) :
          st \in SeqsUpTo(SymNames, MaxSyms),
          rels \in {{}} \cup {{i} : i \in 1..MaxSyms}}

\* The descriptor of the i-th map binding.
MapFdBase == 100
MapInfos == {[i \in DOMAIN names |-> <<names[i], MapFdBase + i>>] :
               names \in SeqsUpTo(SymNames, MaxSyms)}

\* program.rs:71-85: symbol index -> the entry of map_fd_table it resolves to.
\* The inner loop runs over map_info in order and insert replaces, so the last
\* binding of that name stays.
map_symbols_of(elf, map_info) ==
  LET matches(i) == {j \in DOMAIN map_info : map_info[j][1] = elf.symtab[i]}
  IN [i \in {k \in DOMAIN elf.symtab : matches(k) # {}} |->
        CHOOSE j \in matches(i) : \A j2 \in matches(i) : j2 <= j]

\* program.rs:86: map_symbols.len() != map_info.len() fails the load.
all_resolved(elf, map_info) ==
  Cardinality(DOMAIN map_symbols_of(elf, map_info)) = Len(map_info)

\* bpf_program_load_ex, program.rs:55-154: the error returned ("" for Ok), the
\* map_fd_table of the program, and for every relocation entry that was
\* applied the entry of map_fd_table whose address was written into the code.
bpf_program_load_ex(elf, map_info) ==
  LET fail(e) == [err |-> e, map_fd_table |-> <<>>, relocated |-> <<>>]
  IN IF ~elf.valid THEN fail("EINVAL")
     ELSE IF elf.machine # "BPF" THEN fail("EINVAL")
     ELSE IF ~elf.has_symtab THEN fail("ENOENT")
     ELSE IF ~all_resolved(elf, map_info) THEN fail("ENOENT")
     ELSE IF ~elf.has_text THEN fail("ENOENT")
     ELSE LET map_symbols == map_symbols_of(elf, map_info)
          IN [err |-> "",
              map_fd_table |-> [j \in DOMAIN map_info |-> map_info[j][2]],
              relocated |-> [i \in elf.rels \cap DOMAIN map_symbols |-> map_symbols[i]]]

\* ------------------------------------------------------------ bpf objects
\* bpf_allocate_fd: a descriptor no object has.
FirstFd == 3
bpf_allocate_fd == FirstFd + Cardinality(DOMAIN BPF_OBJECTS)

\* BpfObject::Program and BpfObject::Map.  A program is known by its identity
\* (the Arc that bpf_object_create_program makes for it).
Program(id) == [kind |-> "Program", id |-> id]
Map(id) == [kind |-> "Map", id |-> id]

\* A load_program call, program.rs:55-154 with bpf_object_create_program.
LoadProgram(elf, map_info) ==
  /\ Running
  /\ Cardinality(DOMAIN BPF_OBJECTS) < MaxObjs
  /\ LET r == bpf_program_load_ex(elf, map_info)
         fd == bpf_allocate_fd
     IN /\ BPF_OBJECTS' = IF r.err = "" THEN MapInsert(BPF_OBJECTS, fd, Program(fd))
                          ELSE BPF_OBJECTS
        /\ ret' = [op |-> "load", target |-> <<elf, map_info>>,
                   fd |-> IF r.err = "" THEN fd ELSE 0, err |-> r.err, out |-> r.relocated]
  /\ UNCHANGED <<engineVars, allocVars, PAGE_SIZE, last,
                 ATTACHED_PROGS, KRETPROBES, attachOrder, nKret>>

\* A bpf map is created under a fresh descriptor.
CreateMap ==
  /\ Running
  /\ Cardinality(DOMAIN BPF_OBJECTS) < MaxObjs
  /\ LET fd == bpf_allocate_fd
     IN /\ BPF_OBJECTS' = MapInsert(BPF_OBJECTS, fd, Map(fd))
        /\ ret' = [op |-> "map", target |-> <<>>, fd |-> fd, err |-> "", out |-> <<>>]
  /\ UNCHANGED <<engineVars, allocVars, PAGE_SIZE, last,
                 ATTACHED_PROGS, KRETPROBES, attachOrder, nKret>>

\* ------------------------------------------------------------ bpf/tracepoints.rs
\* A target string is a sequence of tokens: the character ":" or a word free
\* of it.
Words == {"kprobe", "KPROBE", "kretprobe@entry", "kretprobe@Entry", "kretprobe@exit",
          "tracepoint", "foo", "foo_alias", "bad", "nosym"}

\* to_ascii_lowercase of a word
Lower(w) ==
  IF w = "KPROBE" THEN "kprobe"
  ELSE IF w = "kretprobe@Entry" THEN "kretprobe@entry"
  ELSE w

\* str::eq_ignore_ascii_case against a literal that is one word
eq_ignore_ascii_case(str, lit) == Len(str) = 1 /\ Lower(str[1]) = Lower(lit)

\* str::find(':'): the first position holding ":", 0 for None.
find_colon(target) ==
  IF \E i \in DOMAIN target : target[i] = ":"
  THEN Min({i \in DOMAIN target : target[i] = ":"})
  ELSE 0

\* parse_tracepoint, tracepoints.rs:82-99
parse_tracepoint(target) ==
  LET pos == find_colon(target)
      type_str == SubSeq(target, 1, pos - 1)
      fn_name == SubSeq(target, pos + 1, Len(target))
      fail == [err |-> "EINVAL", tp_type |-> "", fn_name |-> <<>>]
  IN IF pos = 0 THEN fail
     ELSE IF eq_ignore_ascii_case(type_str, "kprobe")
     THEN [err |-> "", tp_type |-> "KProbe", fn_name |-> fn_name]
     ELSE IF eq_ignore_ascii_case(type_str, "kretprobe@entry")
     THEN [err |-> "", tp_type |-> "KRetProbeEntry", fn_name |-> fn_name]
     ELSE IF eq_ignore_ascii_case(type_str, "kretprobe@exit")
     THEN [err |-> "", tp_type |-> "KRetProbeExit", fn_name |-> fn_name]
     ELSE fail

\* resolve_symbol, tracepoints.rs:78-80: the module manager's symbols (0: None).
resolve_symbol(symbol) ==
  IF symbol = <<"foo">> THEN 20
  ELSE IF symbol = <<"foo_alias">> THEN 20
  ELSE IF symbol = <<"bad">> THEN 24
  ELSE 0

\* Tracepoint::new
Tracepoint(tp_type, token) == <<tp_type, token>>

\* The programs attached to a tracepoint, in the order their attaches succeeded.
OrderOf(tp) == IF tp \in DOMAIN attachOrder THEN attachOrder[tp] ELSE <<>>

\* The register_kprobe call being made put a probe at addr.
Registered(addr) == addr \in DOMAIN KPROBES' /\ addr \notin DOMAIN KPROBES

\* register_kretprobe(addr, args): installs a kprobe at addr whose pre-handler
\* is the kretprobe's; it fails when that kprobe cannot be registered.
register_kretprobe(addr) ==
  /\ register_kprobe(addr)
  /\ IF Registered(addr)
     THEN /\ KRETPROBES' = MapInsert(KRETPROBES, addr, 0)
          /\ nKret' = [nKret EXCEPT ![addr] = @ + 1]
     ELSE UNCHANGED <<KRETPROBES, nKret>>

\* The branch for a tracepoint that has a list, without the identity test.
attach_existing_no_check(programs, program) ==
  [err |-> "", programs |-> Append(programs, program)]

\* The branch for a tracepoint that has a list, putting the program first.
attach_existing_front(programs, program) ==
  IF \E i \in DOMAIN programs : programs[i] = program
  THEN [err |-> "EAGAIN", programs |-> programs]
  ELSE [err |-> "", programs |-> <<program>> \o programs]

\* tracepoints.rs:116-122: the tracepoint has a list.  Arc::ptr_eq compares
\* the identity of the programs.
attach_existing(programs, program) ==
  IF \E i \in DOMAIN programs : programs[i] = program
  THEN [err |-> "EAGAIN", programs |-> programs]
  ELSE [err |-> "", programs |-> Append(programs, program)]

\* The dual of a kretprobe tracepoint, tracepoints.rs:143-148.
dual_tp(tracepoint) ==
  IF tracepoint[1] = "KRetProbeEntry"
  THEN Tracepoint("KRetProbeExit", tracepoint[2])
  ELSE Tracepoint("KRetProbeEntry", tracepoint[2])

\* The branch for a new tracepoint that creates the key of the tracepoint only.
attach_new_no_dual(map, tracepoint, program, registered) ==
  IF ~registered THEN map ELSE MapInsert(map, tracepoint, <<program>>)

\* The branch for a new tracepoint that creates its keys before it looks at
\* the outcome of the registration.
attach_new_unconditional(map, tracepoint, program, registered) ==
  IF tracepoint[1] = "KProbe" THEN MapInsert(map, tracepoint, <<program>>)
  ELSE MapInsert(MapInsert(map, tracepoint, <<program>>), dual_tp(tracepoint), <<>>)

\* tracepoints.rs:124-152: the tracepoint is new.  `?` returns EINVAL before
\* any insert when the registration failed.
attach_new(map, tracepoint, program, registered) ==
  IF ~registered THEN map
  ELSE IF tracepoint[1] = "KProbe" THEN MapInsert(map, tracepoint, <<program>>)
  ELSE MapInsert(MapInsert(map, tracepoint, <<program>>), dual_tp(tracepoint), <<>>)

\* bpf_program_attach, tracepoints.rs:101-155.  ATTACHED_PROGS is held from
\* line 115 to the return.
bpf_program_attach(target, prog_fd) ==
  LET parsed == parse_tracepoint(target)
      addr == resolve_symbol(parsed.fn_name)
      tracepoint == Tracepoint(parsed.tp_type, addr)
      program == BPF_OBJECTS[prog_fd].id
      Early(err) == [op |-> "attach", target |-> <<>>, fd |-> 0, err |-> err, out |-> <<>>]
      Ret(err) == [op |-> "attach", target |-> tracepoint, fd |-> 0, err |-> err, out |-> <<>>]
      Fail(err) == /\ ret' = Early(err)
                   /\ UNCHANGED <<engineVars, allocVars, PAGE_SIZE, last,
                                  ATTACHED_PROGS, KRETPROBES, attachOrder, nKret>>
  IN /\ UNCHANGED BPF_OBJECTS
     /\ IF prog_fd \notin DOMAIN BPF_OBJECTS THEN Fail("ENOENT")
        ELSE IF BPF_OBJECTS[prog_fd].kind # "Program" THEN Fail("ENOENT")
        ELSE IF parsed.err # "" THEN Fail(parsed.err)
        ELSE IF addr = 0 THEN Fail("ENOENT")
        ELSE IF tracepoint \in DOMAIN ATTACHED_PROGS
        THEN LET r == attach_existing(ATTACHED_PROGS[tracepoint], program)
             IN /\ ATTACHED_PROGS' = [ATTACHED_PROGS EXCEPT ![tracepoint] = r.programs]
                /\ attachOrder' = IF r.err = "" THEN MapInsert(attachOrder, tracepoint,
                                                       Append(OrderOf(tracepoint), program))
                                  ELSE attachOrder
                /\ ret' = Ret(r.err)
                /\ UNCHANGED <<engineVars, allocVars, PAGE_SIZE, last, KRETPROBES, nKret>>
        ELSE /\ IF parsed.tp_type = "KProbe"
                THEN register_kprobe(addr) /\ UNCHANGED <<KRETPROBES, nKret>>
                ELSE register_kretprobe(addr)
             /\ ATTACHED_PROGS' = attach_new(ATTACHED_PROGS, tracepoint, program, Registered(addr))
             /\ attachOrder' = IF Registered(addr)
                               THEN MapInsert(attachOrder, tracepoint, <<program>>)
                               ELSE attachOrder
             /\ ret' = Ret(IF Registered(addr) THEN "" ELSE "EINVAL")

\* run_attached_programs, tracepoints.rs:51-58: the programs run, in order;
\* unwrap() panics when the tracepoint has no list.
run_attached_programs(tracepoint) ==
  IF tracepoint \in DOMAIN ATTACHED_PROGS
  THEN [err |-> "", ran |-> ATTACHED_PROGS[tracepoint]]
  ELSE [err |-> "panic", ran |-> <<>>]

\* The handler a probe was registered with runs the programs of its
\* tracepoint: kprobe_handler, kretprobe_entry_handler, kretprobe_exit_handler
\* (tracepoints.rs:60-76).
dispatch(tp_type, probed_addr) ==
  LET r == run_attached_programs(Tracepoint(tp_type, probed_addr))
  IN ret' = [op |-> "hit", target |-> Tracepoint(tp_type, probed_addr), fd |-> 0,
             err |-> r.err, out |-> r.ran]

\* A CPU hits a breakpoint.  When this is the first hit of a probe the trap
\* handler calls the probe's pre-handler: the dispatcher of the kprobe, or the
\* kretprobe's, which takes an instance and calls the entry dispatcher.
TracepointTrap(pc) ==
  /\ BreakpointTrap(pc)
  /\ LET hit == {a \in TextAddrs : nPre'[a] > nPre[a]}
     IN IF hit = {} THEN UNCHANGED <<KRETPROBES, ret>>
        ELSE LET a == Min(hit)
             IN IF a \in DOMAIN KRETPROBES
                THEN /\ KRETPROBES' = [KRETPROBES EXCEPT ![a] = @ + 1]
                     /\ dispatch("KRetProbeEntry", a)
                ELSE /\ UNCHANGED KRETPROBES
                     /\ dispatch("KProbe", a)
  /\ UNCHANGED <<BPF_OBJECTS, ATTACHED_PROGS, attachOrder, nKret>>

\* A probed function returns into the return trampoline: the kretprobe's
\* instance is released and the exit dispatcher is called.
KretprobeReturn(a) ==
  /\ Running
  /\ a \in DOMAIN KRETPROBES
  /\ KRETPROBES[a] > 0
  /\ KRETPROBES' = [KRETPROBES EXCEPT ![a] = @ - 1]
  /\ dispatch("KRetProbeExit", a)
  /\ UNCHANGED <<engineVars, allocVars, PAGE_SIZE, last,
                 BPF_OBJECTS, ATTACHED_PROGS, attachOrder, nKret>>

BpfProgramAttach(target, prog_fd) == Running /\ bpf_program_attach(target, prog_fd)

\* ------------------------------------------------------------ spin locks
\* The lazy_static Mutex (SpinLock) objects: kprobes.rs:31-32,
\* tracepoints.rs:47, the bpf object table, breakpoint.rs:35-36.
Locks == {"KPROBES", "ADDR_MAP", "ATTACHED_PROGS", "BPF_OBJECTS",
          "FREE_BREAKPOINTS", "BREAKPOINT_PAGES"}

Cpus == 1..NCpu

\* What a function does with the locks, in program order: it takes a lock
\* (Mutex::lock, spinning while another CPU holds it), drops a guard, or runs
\* an attached program.
Lock(l) == [op |-> "lock", l |-> l]
Drop(l) == [op |-> "drop", l |-> l]
RunStep == [op |-> "run", l |-> ""]

\* A CPU outside the engine.
Idle == [fn |-> "", todo |-> <<>>, held |-> <<>>]

\* register_kprobe, kprobes.rs:106-136: KPROBES from line 111 to the return;
\* when the probe is inserted, ADDR_MAP for the statement at line 128.
register_kprobe_locks(inserted) ==
  IF inserted
  THEN <<Lock("KPROBES"), Lock("ADDR_MAP"), Drop("ADDR_MAP"), Drop("KPROBES")>>
  ELSE <<Lock("KPROBES"), Drop("KPROBES")>>

\* unregister_kprobe, kprobes.rs:138-155
unregister_kprobe_locks == <<Lock("KPROBES"), Drop("KPROBES")>>

\* run_attached_programs, tracepoints.rs:51-58: the guard `map` lives to the
\* end of the function, across the loop that runs the programs.
run_attached_programs_locks == <<Lock("ATTACHED_PROGS"), RunStep, Drop("ATTACHED_PROGS")>>

\* kprobe_trap_handler, kprobes.rs:70-104: KPROBES from line 72 to the return.
\* On a first hit the pre-handler runs under it (line 75); otherwise ADDR_MAP
\* is taken for the `if let` at line 94.
kprobe_trap_handler_locks(is_first_hit, pre_handler) ==
  IF is_first_hit
  THEN <<Lock("KPROBES")>> \o pre_handler \o <<Drop("KPROBES")>>
  ELSE <<Lock("KPROBES"), Lock("ADDR_MAP"), Drop("ADDR_MAP"), Drop("KPROBES")>>

\* alloc_breakpoint, breakpoint.rs:40-62, and free_breakpoint,
\* breakpoint.rs:64-80: FREE_BREAKPOINTS for the whole call, BREAKPOINT_PAGES
\* inside it.
alloc_breakpoint_locks ==
  <<Lock("FREE_BREAKPOINTS"), Lock("BREAKPOINT_PAGES"),
    Drop("BREAKPOINT_PAGES"), Drop("FREE_BREAKPOINTS")>>
free_breakpoint_locks ==
  <<Lock("FREE_BREAKPOINTS"), Lock("BREAKPOINT_PAGES"),
    Drop("BREAKPOINT_PAGES"), Drop("FREE_BREAKPOINTS")>>

\* bpf_program_attach, tracepoints.rs:101-155: BPF_OBJECTS inside the block at
\* lines 103-109; ATTACHED_PROGS from line 115 to the return, across the call
\* of register_kprobe at line 131 when the tracepoint has no list yet.
bpf_program_attach_locks(has_program, has_list, inserted) ==
  <<Lock("BPF_OBJECTS"), Drop("BPF_OBJECTS")>> \o
  (IF ~has_program THEN <<>>
   ELSE <<Lock("ATTACHED_PROGS")>> \o
        (IF has_list THEN <<>> ELSE register_kprobe_locks(inserted)) \o
        <<Drop("ATTACHED_PROGS")>>)

\* The calls into the engine, and the traps: of a probe with the kprobe
\* tracepoint's handler (tracepoints.rs:60-64), of a probe whose handler takes
\* no lock, and behind an instruction buffer or at an unknown address.
Calls ==
  {[fn |-> "register_kprobe", todo |-> register_kprobe_locks(b)] : b \in BOOLEAN} \cup
  {[fn |-> "unregister_kprobe", todo |-> unregister_kprobe_locks]} \cup
  {[fn |-> "alloc_breakpoint", todo |-> alloc_breakpoint_locks]} \cup
  {[fn |-> "free_breakpoint", todo |-> free_breakpoint_locks]} \cup
  {[fn |-> "bpf_program_attach", todo |-> bpf_program_attach_locks(p, e, i)]
     : p \in BOOLEAN, e \in BOOLEAN, i \in BOOLEAN} \cup
  {[fn |-> "kprobe_trap_handler",
    todo |-> kprobe_trap_handler_locks(TRUE, run_attached_programs_locks)]} \cup
  {[fn |-> "kprobe_trap_handler", todo |-> kprobe_trap_handler_locks(b, <<>>)]
     : b \in BOOLEAN}

\* A CPU enters a function of the engine.
Call(t, c) ==
  /\ Running
  /\ task[t] = Idle
  /\ task' = [task EXCEPT ![t] = [fn |-> c.fn, todo |-> c.todo, held |-> <<>>]]
  /\ UNCHANGED holder

\* Mutex::lock returns: the lock was free.
Acquire(t) ==
  /\ task[t].todo # <<>>
  /\ Head(task[t].todo).op = "lock"
  /\ LET l == Head(task[t].todo).l
     IN /\ holder[l] = 0
        /\ holder' = [holder EXCEPT ![l] = t]
        /\ task' = [task EXCEPT ![t].todo = Tail(@), ![t].held = Append(@, l)]

\* A guard is dropped; after the last one the function returns.
Release(t) ==
  /\ task[t].todo # <<>>
  /\ Head(task[t].todo).op = "drop"
  /\ LET l == Head(task[t].todo).l
     IN /\ holder' = [holder EXCEPT ![l] = 0]
        /\ task' = [task EXCEPT ![t] =
                      IF Tail(task[t].todo) = <<>> THEN Idle
                      ELSE [fn |-> task[t].fn, todo |-> Tail(task[t].todo),
                            held |-> SelectSeq(task[t].held, LAMBDA x : x # l)]]

\* program.run() for the programs of the list, tracepoints.rs:54-56.
RunPrograms(t) ==
  /\ task[t].todo # <<>>
  /\ Head(task[t].todo).op = "run"
  /\ task' = [task EXCEPT ![t].todo = Tail(@)]
  /\ UNCHANGED holder

\* ------------------------------------------------------------ specification
InitState ==
  /\ KPROBES = <<>>
  /\ ADDR_MAP = <<>>
  /\ mem = [x \in TextHalfwords \cup BufHalfwords |-> IF x \in TextHalfwords THEN x ELSE 0]
  /\ FREE_BREAKPOINTS = {}
  /\ BREAKPOINT_PAGES = <<>>
  /\ ebreakFrames = {}
  /\ inUse = {}
  /\ stepping = [b \in BufAddrs |-> 0]
  /\ nPre = [a \in TextAddrs |-> 0]
  /\ nPost = [a \in TextAddrs |-> 0]
  /\ BPF_OBJECTS = <<>>
  /\ ATTACHED_PROGS = <<>>
  /\ KRETPROBES = <<>>
  /\ attachOrder = <<>>
  /\ nKret = [a \in TextAddrs |-> 0]
  /\ ret = [op |-> "init", target |-> <<>>, fd |-> 0, err |-> "", out |-> <<>>]
  /\ holder = [l \in Locks |-> 0]
  /\ task = [t \in Cpus |-> Idle]

Init ==
  /\ InitState
  /\ PAGE_SIZE = PageSlots * BREAKPOINT_LENGTH
  /\ last = [op |-> "init", arg |-> 0, ok |-> TRUE, err |-> "", out |-> 0]

\* The same start, keeping of the engine's calls only whether they panicked.
InitUntraced ==
  /\ InitState
  /\ PAGE_SIZE = PageSlots * BREAKPOINT_LENGTH
  /\ last = [op |-> "untraced", arg |-> 0, ok |-> TRUE, err |-> "", out |-> 0]

RegisterKprobe(a) == Running /\ register_kprobe(a)
UnregisterKprobe(a) == Running /\ unregister_kprobe(a)

\* The kprobe engine with its callers and the CPUs.
NextEngine ==
  \/ \E a \in TextAddrs : RegisterKprobe(a) /\ UNCHANGED <<bpfVars, lockVars>>
  \/ \E a \in TextAddrs : UnregisterKprobe(a) /\ UNCHANGED <<bpfVars, lockVars>>
  \/ \E pc \in TextAddrs \cup inUse : BreakpointTrap(pc) /\ UNCHANGED <<bpfVars, lockVars>>
  \/ \E buf \in BufAddrs : SingleStep(buf) /\ UNCHANGED <<bpfVars, lockVars>>

\* The slot allocator with its callers.
NextAlloc ==
  \/ AllocBreakpoint /\ UNCHANGED <<bpfVars, lockVars>>
  \/ \E s \in inUse : FreeBreakpoint(s) /\ UNCHANGED <<bpfVars, lockVars>>

Next == NextEngine \/ NextAlloc

Spec == Init /\ [][Next]_vars
SpecEngine == Init /\ [][NextEngine]_vars
SpecAlloc == Init /\ [][NextAlloc]_vars

\* The engine on a kernel in which a caller already holds one breakpoint slot
\* (the state after the first alloc_breakpoint): a CPU that runs into the slot
\* traps at a PC the engine knows nothing about.
InitTrap ==
  LET base == Min(FrameBases)
  IN /\ KPROBES = <<>>
     /\ ADDR_MAP = <<>>
     /\ mem = [x \in TextHalfwords \cup BufHalfwords |-> IF x \in TextHalfwords THEN x ELSE 0]
     /\ PAGE_SIZE = PageSlots * BREAKPOINT_LENGTH
     /\ FREE_BREAKPOINTS = {base + i * BREAKPOINT_LENGTH : i \in 1..(PageSlots - 1)}
     /\ BREAKPOINT_PAGES = (base :> [nr_free |-> PageSlots - 1])
     /\ ebreakFrames = {base}
     /\ inUse = {base}
     /\ stepping = [b \in BufAddrs |-> 0]
     /\ nPre = [a \in TextAddrs |-> 0]
     /\ nPost = [a \in TextAddrs |-> 0]
     /\ BPF_OBJECTS = <<>>
     /\ ATTACHED_PROGS = <<>>
     /\ KRETPROBES = <<>>
     /\ attachOrder = <<>>
     /\ nKret = [a \in TextAddrs |-> 0]
     /\ ret = [op |-> "init", target |-> <<>>, fd |-> 0, err |-> "", out |-> <<>>]
     /\ holder = [l \in Locks |-> 0]
     /\ task = [t \in Cpus |-> Idle]
     /\ last = [op |-> "alloc", arg |-> 0, ok |-> TRUE, err |-> "", out |-> base]

SpecTrap == InitTrap /\ [][NextEngine]_vars

\* Scenario S4: on a machine with 4096-byte pages, exactly one page worth of
\* slots is allocated, then all of them are freed, in ascending or in
\* descending order of address.
InitS4 ==
  /\ InitState
  /\ PAGE_SIZE = RISCV_PAGE_SIZE
  /\ last = [op |-> "init", arg |-> 0, ok |-> TRUE, err |-> "", out |-> 0]

S4Alloc ==
  /\ last.op \in {"init", "alloc"}
  /\ Cardinality(inUse) < BREAKPOINTS_PER_PAGE
  /\ AllocBreakpoint

S4Free(s) ==
  /\ last.op = "free" \/ Cardinality(inUse) = BREAKPOINTS_PER_PAGE
  /\ FreeBreakpoint(s)

\* The slot to free next: the lowest or the highest of the page first, then
\* the neighbour of the slot freed last.
S4NextSlots ==
  IF last.op = "free"
  THEN {last.arg + BREAKPOINT_LENGTH, last.arg - BREAKPOINT_LENGTH} \cap inUse
  ELSE IF inUse = {} THEN {}
  ELSE {Min(inUse), Min(inUse) + PAGE_SIZE - BREAKPOINT_LENGTH}

NextS4 ==
  \/ S4Alloc /\ UNCHANGED <<bpfVars, lockVars>>
  \/ \E s \in S4NextSlots : S4Free(s) /\ UNCHANGED <<bpfVars, lockVars>>

SpecS4 == InitS4 /\ [][NextS4]_vars

\* The loader with its callers.
NextLoad ==
  \E elf \in ElfFiles : \E map_info \in MapInfos :
    LoadProgram(elf, map_info) /\ UNCHANGED lockVars

SpecLoad == Init /\ [][NextLoad]_vars

\* The target strings of attach calls.
Targets ==
  {<<"kprobe", ":", "foo">>, <<"KPROBE", ":", "foo_alias">>, <<"kprobe", ":", "bad">>,
   <<"kretprobe@Entry", ":", "foo">>, <<"kretprobe@exit", ":", "foo">>,
   <<"kretprobe@entry", ":", "bad">>,
   <<"kprobe", ":", "nosym">>, <<"tracepoint", ":", "foo">>, <<"kprobe", "foo">>,
   <<"kprobe", ":", "foo", ":", "bad">>}

\* An object whose load succeeds.
PlainElf == ElfFile(TRUE, "BPF", TRUE, <<>>, {}, TRUE)

\* The descriptors callers pass: those of the objects and one of no object.
Fds == FirstFd..(FirstFd + MaxObjs)

\* The attach interface with its callers.
NextAttach ==
  \/ LoadProgram(PlainElf, <<>>) /\ UNCHANGED lockVars
  \/ CreateMap /\ UNCHANGED lockVars
  \/ \E target \in Targets : \E fd \in Fds :
       BpfProgramAttach(target, fd) /\ UNCHANGED lockVars

SpecAttach == InitUntraced /\ [][NextAttach]_vars

\* The targets of the probes of function foo.
ProbeTargets ==
  {<<"kprobe", ":", "foo">>, <<"kretprobe@Entry", ":", "foo">>,
   <<"kretprobe@exit", ":", "foo">>}

\* The tracepoint registry with programs being attached to the probes of a
\* function while CPUs call it and return from it.  Probes are registered by
\* attach only.
NextBpf ==
  \/ LoadProgram(PlainElf, <<>>) /\ UNCHANGED lockVars
  \/ \E target \in ProbeTargets : \E fd \in DOMAIN BPF_OBJECTS :
       BpfProgramAttach(target, fd) /\ UNCHANGED lockVars
  \/ \E pc \in TextAddrs : TracepointTrap(pc) /\ UNCHANGED lockVars
  \/ \E a \in TextAddrs : KretprobeReturn(a) /\ UNCHANGED lockVars

SpecBpf == InitUntraced /\ [][NextBpf]_vars

\* The CPUs going through the engine's functions lock by lock.
NextLocks ==
  \/ \E t \in Cpus : \E c \in Calls :
       Call(t, c) /\ UNCHANGED <<engineVars, allocVars, bpfVars, last, PAGE_SIZE>>
  \/ \E t \in Cpus :
       Acquire(t) /\ UNCHANGED <<engineVars, allocVars, bpfVars, last, PAGE_SIZE>>
  \/ \E t \in Cpus :
       Release(t) /\ UNCHANGED <<engineVars, allocVars, bpfVars, last, PAGE_SIZE>>
  \/ \E t \in Cpus :
       RunPrograms(t) /\ UNCHANGED <<engineVars, allocVars, bpfVars, last, PAGE_SIZE>>

SpecLocks == Init /\ [][NextLocks]_vars

\* A CPU that was redirected into an instruction buffer keeps executing: it
\* runs the displaced instruction and traps on the breakpoint behind it.
FairEngine ==
  /\ InitUntraced
  /\ [][NextEngine]_vars
  /\ \A buf \in BufAddrs : WF_vars(SingleStep(buf) /\ UNCHANGED <<bpfVars, lockVars>>)

\* ------------------------------------------------------------ claims
\* The halfwords of the instruction at a.
InsnHalfwords(a) == {a + 2 * i : i \in 0..(KernelText[a].len \div 2 - 1)}

\* C1: a register_kprobe(a) call succeeds exactly when, as it is made, no
\* probe is registered at a and the instruction at a is not Unsupported; after
\* a success the probe is in the registry with active_count = 0 and emulate
\* set exactly when the instruction is classified Emulate.
C1_RegisterOutcome ==
  [][\A a \in TextAddrs :
       (last'.op = "register" /\ last'.arg = a) =>
         /\ last'.ok <=> (a \notin DOMAIN KPROBES /\ get_insn_type(mem, a) # "Unsupported")
         /\ last'.ok =>
              /\ a \in DOMAIN KPROBES'
              /\ KPROBES'[a].active_count = 0
              /\ KPROBES'[a].emulate <=> (get_insn_type(mem, a) = "Emulate")]_vars

C1_Witness ==
  /\ last.op = "register" /\ last.ok
  /\ last.arg \in DOMAIN KPROBES
  /\ KPROBES[last.arg].emulate

\* C2: a register_kprobe(a) call for an address that already has a probe
\* fails as "already exist" and changes nothing: registry, ADDR_MAP, memory
\* (kernel text and instruction buffers), counters and the slot allocator.
C2_DoubleRegister ==
  [][\A a \in TextAddrs :
       (last'.op = "register" /\ last'.arg = a /\ a \in DOMAIN KPROBES) =>
         /\ ~last'.ok
         /\ last'.err = "already exist"
         /\ UNCHANGED <<engineVars, allocVars, PAGE_SIZE>>]_vars

C2_Witness ==
  /\ last.op = "register" /\ ~last.ok /\ last.err = "already exist"
  /\ last.arg \in DOMAIN KPROBES
  /\ KPROBES[last.arg].active_count > 0

\* C3: an unregister_kprobe(a) call succeeds only if a probe exists at a with
\* active_count = 0; when none exists or its active_count > 0 the call is
\* refused and registry, memory and ADDR_MAP stay as they are, so a probe that
\* is there stays armed.
C3_UnregisterRefused ==
  [][\A a \in TextAddrs :
       (last'.op = "unregister" /\ last'.arg = a) =>
         /\ last'.ok => (a \in DOMAIN KPROBES /\ KPROBES[a].active_count = 0)
         /\ (a \notin DOMAIN KPROBES \/ KPROBES[a].active_count > 0) =>
              /\ ~last'.ok
              /\ UNCHANGED <<KPROBES, mem, ADDR_MAP>>
              /\ a \in DOMAIN KPROBES =>
                   \A x \in InsnHalfwords(a) : mem'[x] = C_EBREAK]_vars

C3_Witness ==
  /\ last.op = "unregister" /\ ~last.ok /\ last.err = "still active"
  /\ last.arg \in DOMAIN KPROBES
  /\ KPROBES[last.arg].active_count > 0

\* C4: for every instruction address a of the kernel text, the insn_len bytes
\* at a are all breakpoints exactly when a probe for a is in the registry, and
\* they are the original instruction whenever no probe for a is registered.
C4_TextMatchesRegistry ==
  \A a \in TextAddrs :
    /\ (\A x \in InsnHalfwords(a) : mem[x] = C_EBREAK) <=> a \in DOMAIN KPROBES
    /\ a \notin DOMAIN KPROBES => \A x \in InsnHalfwords(a) : mem[x] = x

C4_Witness ==
  /\ last.op = "unregister" /\ last.ok
  /\ KernelText[last.arg].len > BREAKPOINT_LENGTH
  /\ \A x \in InsnHalfwords(last.arg) : mem[x] = x
  /\ \E b \in DOMAIN KPROBES : \A x \in InsnHalfwords(b) : mem[x] = C_EBREAK

\* C5: ADDR_MAP holds no entry whose value is an address without a registered
\* probe (unregister_kprobe removes the probe's entry).
C5_NoStaleAddrMap ==
  \A k \in DOMAIN ADDR_MAP : ADDR_MAP[k] \in DOMAIN KPROBES

\* C6: the kernel never panics on the counter, and for every registered probe
\* active_count is >= 0 and equals the first-hit traps that ran its
\* pre-handler minus its completions (post-step traps and emulated
\* completions), also with several traversals in flight.
C6_ActiveCount ==
  /\ Running
  /\ \A a \in DOMAIN KPROBES :
       /\ KPROBES[a].active_count >= 0
       /\ KPROBES[a].active_count = nPre[a] - nPost[a]

C6_Witness ==
  /\ last.op = "trap" /\ last.ok
  /\ last.arg \in DOMAIN ADDR_MAP
  /\ ADDR_MAP[last.arg] \in DOMAIN KPROBES
  /\ LET a == ADDR_MAP[last.arg]
     IN /\ last.out = a + KPROBES[a].insn_len
        /\ nPre[a] = 2 /\ nPost[a] = 1
        /\ KPROBES[a].active_count = 1

\* Probes that single-step their instruction.
Stepped == {a \in DOMAIN KPROBES : ~KPROBES[a].emulate}

\* C7: for a non-emulated probe every first-hit trap is followed by one
\* post-step trap of the same probe: completions never exceed first hits,
\* outstanding first hits lead to a state where all of them are completed, and
\* whenever no traversal is in flight the two counts are equal and
\* active_count is 0.
C7_PrePostBalance ==
  /\ [](\A a \in Stepped : nPost[a] <= nPre[a])
  /\ [](Busy = 0 => \A a \in Stepped : nPre[a] = nPost[a] /\ KPROBES[a].active_count = 0)
  /\ \A a \in {x \in TextAddrs : KernelText[x].type = "Execute"} :
       (a \in Stepped /\ nPre[a] > nPost[a]) ~> (a \in Stepped /\ nPre[a] = nPost[a])

C7_Witness ==
  /\ Busy = 0
  /\ \E a \in Stepped : nPre[a] = MaxHits /\ nPost[a] = MaxHits

\* Slot s lies inside the page at base.
InPage(s, base) == base <= s /\ s < base + PAGE_SIZE

\* C8: with frees of allocated slots only, every address of the free set lies
\* inside exactly one recorded page, and every recorded page's nr_free is the
\* number of free-set addresses inside it.
C8_FreeSetMatchesPages ==
  /\ \A s \in FREE_BREAKPOINTS :
       Cardinality({b \in DOMAIN BREAKPOINT_PAGES : InPage(s, b)}) = 1
  /\ \A b \in DOMAIN BREAKPOINT_PAGES :
       BREAKPOINT_PAGES[b].nr_free = Cardinality({s \in FREE_BREAKPOINTS : InPage(s, b)})

C8_Witness ==
  /\ last.op = "free"
  /\ Cardinality(DOMAIN BREAKPOINT_PAGES) = 2
  /\ Cardinality(ebreakFrames) = 3
  /\ \A b \in DOMAIN BREAKPOINT_PAGES :
       BREAKPOINT_PAGES[b].nr_free \in 1..(BREAKPOINTS_PER_PAGE - 1)

\* C9: once a slot has been allocated (a frame has been made a page) at least
\* one page is retained, and exactly one whenever no slot is in use.
C9_KeepOnePage ==
  ebreakFrames # {} =>
    /\ Cardinality(DOMAIN BREAKPOINT_PAGES) >= 1
    /\ inUse = {} => Cardinality(DOMAIN BREAKPOINT_PAGES) = 1

C9_Witness ==
  /\ last.op = "free"
  /\ inUse = {}
  /\ Cardinality(ebreakFrames) = 3
  /\ Cardinality(DOMAIN BREAKPOINT_PAGES) = 1

\* Scenario S4 has run to its end.
S4Done == last.op = "free" /\ inUse = {}

\* C10 (as amended): with 2-byte slots and 4096-byte pages, allocating 2048
\* slots from an empty allocator and freeing them all leaves one retained page
\* and a free set of 2048 slots, all of that page.
C10_S4FreeSet ==
  S4Done =>
    /\ Cardinality(DOMAIN BREAKPOINT_PAGES) = 1
    /\ Cardinality(FREE_BREAKPOINTS) = 2048
    /\ \A b \in DOMAIN BREAKPOINT_PAGES : FREE_BREAKPOINTS = SlotsOf(b)

C10_Witness ==
  /\ S4Done
  /\ BREAKPOINTS_PER_PAGE = 2048
  /\ ebreakFrames # {}

\* C10 as stated: the free set ends with 2047 slots.
C10_Original ==
  S4Done =>
    /\ Cardinality(DOMAIN BREAKPOINT_PAGES) = 1
    /\ Cardinality(FREE_BREAKPOINTS) = 2047

\* ---- the attach calls
Range(seq) == {seq[i] : i \in DOMAIN seq}
IsProgram(fd) == fd \in DOMAIN BPF_OBJECTS /\ BPF_OBJECTS[fd].kind = "Program"
\* The target parses and its symbol resolves.
Resolves(target) ==
  /\ parse_tracepoint(target).err = ""
  /\ resolve_symbol(parse_tracepoint(target).fn_name) # 0
TracepointOf(target) ==
  Tracepoint(parse_tracepoint(target).tp_type,
             resolve_symbol(parse_tracepoint(target).fn_name))
ListOf(tp) == IF tp \in DOMAIN ATTACHED_PROGS THEN ATTACHED_PROGS[tp] ELSE <<>>
\* The underlying registration at addr would succeed.
Registrable(addr) == addr \notin DOMAIN KPROBES /\ get_insn_type(mem, addr) # "Unsupported"

C12_FifoOnHit ==
  ret.op = "hit" =>
    /\ ret.err = ""
    /\ ret.out = OrderOf(ret.target)
    /\ \A i, j \in DOMAIN ret.out : ret.out[i] = ret.out[j] => i = j

C12_Witness ==
  /\ ret.op = "hit"
  /\ Len(ret.out) = 2
  /\ \E tp2 \in DOMAIN ATTACHED_PROGS \ {ret.target} :
       ATTACHED_PROGS[tp2] = <<ret.out[2], ret.out[1]>>

\* C13: for every address the kretprobe is registered at most once, its
\* KRetProbeEntry key exists exactly when its KRetProbeExit key exists, and
\* exactly when it was registered; the attach that registers it creates both
\* keys, the sibling's list empty, and an attach to a kretprobe tracepoint
\* that has a list registers nothing and changes no other list.
C13_KretprobeOnce ==
  /\ [](\A a \in TextAddrs :
          /\ Tracepoint("KRetProbeEntry", a) \in DOMAIN ATTACHED_PROGS
               <=> Tracepoint("KRetProbeExit", a) \in DOMAIN ATTACHED_PROGS
          /\ nKret[a] <= 1
          /\ nKret[a] = 1 <=> Tracepoint("KRetProbeEntry", a) \in DOMAIN ATTACHED_PROGS)
  /\ [][\A target \in Targets : \A fd \in Fds :
          (/\ IsProgram(fd) /\ Resolves(target)
           /\ TracepointOf(target)[1] # "KProbe"
           /\ BpfProgramAttach(target, fd)) =>
            LET tp == TracepointOf(target)
            IN IF tp \in DOMAIN ATTACHED_PROGS
               THEN /\ UNCHANGED <<KPROBES, KRETPROBES, nKret>>
                    /\ DOMAIN ATTACHED_PROGS' = DOMAIN ATTACHED_PROGS
                    /\ \A tp2 \in DOMAIN ATTACHED_PROGS \ {tp} :
                         ATTACHED_PROGS'[tp2] = ATTACHED_PROGS[tp2]
               ELSE ret'.err = "" =>
                      /\ nKret'[tp[2]] = 1
                      /\ ATTACHED_PROGS'[tp] = <<BPF_OBJECTS[fd].id>>
                      /\ ATTACHED_PROGS'[dual_tp(tp)] = <<>>]_vars

C13_Witness ==
  /\ ret.op = "attach" /\ ret.err = ""
  /\ \E a \in TextAddrs :
       /\ ret.target = Tracepoint("KRetProbeEntry", a)
       /\ nKret[a] = 1
       /\ Len(ATTACHED_PROGS[Tracepoint("KRetProbeEntry", a)]) = 1
       /\ Len(ATTACHED_PROGS[Tracepoint("KRetProbeExit", a)]) = 2

\* C14: an attach call that returns an error leaves ATTACHED_PROGS as it was,
\* and each of these makes it return an error: the descriptor is absent or no
\* program, the target is malformed, the symbol does not resolve, the program
\* is already on the tracepoint's list, the probe of a new tracepoint cannot
\* be registered.
C14_FailedAttach ==
  [][\A target \in Targets : \A fd \in Fds :
       BpfProgramAttach(target, fd) =>
         /\ ret'.err # "" => ATTACHED_PROGS' = ATTACHED_PROGS
         /\ ~IsProgram(fd) => ret'.err = "ENOENT"
         /\ (IsProgram(fd) /\ parse_tracepoint(target).err # "") => ret'.err = "EINVAL"
         /\ (IsProgram(fd) /\ parse_tracepoint(target).err = "" /\ ~Resolves(target)) =>
              ret'.err = "ENOENT"
         /\ (IsProgram(fd) /\ Resolves(target)) =>
              LET tp == TracepointOf(target)
              IN /\ BPF_OBJECTS[fd].id \in Range(ListOf(tp)) => ret'.err = "EAGAIN"
                 /\ (tp \notin DOMAIN ATTACHED_PROGS /\ ~Registrable(tp[2])) =>
                      ret'.err = "EINVAL"]_vars

C14_Witness ==
  /\ ret.op = "attach" /\ ret.err = "EINVAL"
  /\ ret.target = Tracepoint("KProbe", 20)
  /\ Tracepoint("KRetProbeExit", 20) \in DOMAIN ATTACHED_PROGS
  /\ Tracepoint("KProbe", 20) \notin DOMAIN ATTACHED_PROGS

\* ---- the load calls
\* The object and the bindings of the load_program call that returned last.
LoadedElf == ret.target[1]
LoadedMapInfo == ret.target[2]
BoundNames == {LoadedMapInfo[j][1] : j \in DOMAIN LoadedMapInfo}
SymtabNames == {LoadedElf.symtab[i] : i \in DOMAIN LoadedElf.symtab}

\* C15: a load of an otherwise valid object in which a relocation refers to a
\* map symbol that has no binding returns not-found (ENOENT) and registers no
\* program.
C15_UnboundMapRejected ==
  (/\ ret.op = "load"
   /\ LoadedElf.valid /\ LoadedElf.machine = "BPF"
   /\ LoadedElf.has_symtab /\ LoadedElf.has_text
   /\ \E i \in LoadedElf.rels \cap DOMAIN LoadedElf.symtab :
        LoadedElf.symtab[i] \notin BoundNames)
  => (ret.err = "ENOENT" /\ ret.fd \notin DOMAIN BPF_OBJECTS)

\* C16: a load in which some binding's name is the name of no symbol of the
\* symbol table returns not-found (ENOENT) and creates no program, also when a
\* name occurs at several symbol indices or in several bindings.
C16_UnmatchedBindingRejected ==
  (/\ ret.op = "load"
   /\ LoadedElf.valid /\ LoadedElf.machine = "BPF" /\ LoadedElf.has_symtab
   /\ BoundNames \ SymtabNames # {})
  => (ret.err = "ENOENT" /\ ret.fd \notin DOMAIN BPF_OBJECTS)

\* The keys of ADDR_MAP that lead to the probe at addr.
KeysOf(addr) == {k \in DOMAIN ADDR_MAP : ADDR_MAP[k] = addr}

\* C17: every registered probe P has exactly one ADDR_MAP entry, its key is
\* P.insn_buf + P.insn_len and its value P.addr, and no two registered probes
\* share a key, also when a probe is registered again after an unregister.
C17_OneAddrMapEntry ==
  /\ \A a \in DOMAIN KPROBES :
       KeysOf(a) = {KPROBES[a].insn_buf + KPROBES[a].insn_len}
  /\ \A a, b \in DOMAIN KPROBES :
       a # b => KPROBES[a].insn_buf + KPROBES[a].insn_len
                  # KPROBES[b].insn_buf + KPROBES[b].insn_len

\* C18: a trap at the address of a non-emulated probe is handled and leaves
\* the trap frame's PC at the probe's instruction buffer; the CPU that steps
\* through that buffer traps at insn_buf + insn_len of the same probe, and
\* that trap is handled and leaves the PC at addr + insn_len, the instruction
\* after the probed one; a trap whose PC is neither in the registry nor in
\* ADDR_MAP is not handled and changes neither the PC nor any active_count.
C18_TrapRedirect ==
  [][last'.op = "trap" =>
       LET pc == last'.arg
       IN /\ pc \in Stepped =>
               /\ last'.ok
               /\ last'.out = KPROBES[pc].insn_buf
               /\ stepping'[KPROBES[pc].insn_buf] = stepping[KPROBES[pc].insn_buf] + 1
          /\ \A buf \in BufAddrs :
               stepping'[buf] < stepping[buf] =>
                 \E a \in Stepped :
                   /\ KPROBES[a].insn_buf = buf
                   /\ pc = buf + KPROBES[a].insn_len
                   /\ last'.ok
                   /\ last'.out = a + KPROBES[a].insn_len
                   /\ last'.out \in TextAddrs
          /\ (pc \notin DOMAIN KPROBES /\ pc \notin DOMAIN ADDR_MAP) =>
               /\ ~last'.ok
               /\ last'.out = pc
               /\ KPROBES' = KPROBES
               /\ stepping' = stepping]_vars

\* A traversal of a non-emulated probe has completed: the last trap was the
\* post-step trap, and it resumed behind the probed instruction.
C18_Witness ==
  /\ last.op = "trap"
  /\ last.ok
  /\ \E a \in Stepped :
       /\ last.arg = KPROBES[a].insn_buf + KPROBES[a].insn_len
       /\ last.out = a + KPROBES[a].insn_len
       /\ nPost[a] > 0

\* The pages a step gives back to the frame allocator.
ReleasedPages == DOMAIN BREAKPOINT_PAGES \ DOMAIN BREAKPOINT_PAGES'

\* C19: every slot in use and every address of the free set lies in a recorded
\* page; a step releases a page only when all its slots are free after the
\* free and another page remains, and it takes every slot of the page out of
\* the free set; alloc_breakpoint returns an address of a recorded page.
C19_PageRetained ==
  /\ [](\A s \in inUse \cup FREE_BREAKPOINTS : page_base(s) \in DOMAIN BREAKPOINT_PAGES)
  /\ [][/\ \A base \in ReleasedPages :
             /\ last'.op = "free"
             /\ BREAKPOINT_PAGES[base].nr_free + 1 = BREAKPOINTS_PER_PAGE
             /\ Cardinality(DOMAIN BREAKPOINT_PAGES) > 1
             /\ SlotsOf(base) \cap (inUse' \cup FREE_BREAKPOINTS') = {}
        /\ last'.op = "alloc" =>
             /\ page_base(last'.out) \in DOMAIN BREAKPOINT_PAGES'
             /\ last'.out \notin inUse]_vars

\* A page has been released while slots of another page are in use, and a
\* slot was allocated after that.
C19_Witness ==
  /\ last.op = "alloc"
  /\ Cardinality(ebreakFrames) > Cardinality(DOMAIN BREAKPOINT_PAGES)
  /\ Cardinality(inUse) >= 2
  /\ FREE_BREAKPOINTS # {}

\* The documented lock order: KPROBES, ADDR_MAP, ATTACHED_PROGS, BPF_OBJECTS,
\* then the two locks of the slot allocator.
LockRank(l) ==
  CASE l = "KPROBES" -> 1
    [] l = "ADDR_MAP" -> 2
    [] l = "ATTACHED_PROGS" -> 3
    [] l = "BPF_OBJECTS" -> 4
    [] OTHER -> 5

\* C20: whenever a CPU holds several locks, it took them in the documented
\* order: a lock taken later never comes earlier in the order than one the
\* CPU already held.
C20_LockOrder ==
  \A t \in Cpus :
    LET h == task[t].held
    IN \A i, j \in DOMAIN h :
         i < j => \/ LockRank(h[i]) < LockRank(h[j])
                  \/ LockRank(h[i]) = 5 /\ LockRank(h[j]) = 5

\* The CPU is at the loop of run_attached_programs: the next thing it does is
\* run the attached programs.
AtRun(t) == task[t].todo # <<>> /\ Head(task[t].todo).op = "run"

\* C21: the dispatcher has released ATTACHED_PROGS before it runs the first
\* attached program: no CPU runs attached programs while it holds the lock.
C21_RunOutsideLock ==
  \A t \in Cpus :
    AtRun(t) => \A i \in DOMAIN task[t].held : task[t].held[i] # "ATTACHED_PROGS"

\* CPU t spins in Mutex::lock on a lock that CPU u holds.
SpinsOn(t, u) ==
  /\ t # u
  /\ task[t].todo # <<>>
  /\ Head(task[t].todo).op = "lock"
  /\ holder[Head(task[t].todo).l] = u

\* C22: an attach call on one CPU and the trap dispatch of a probe on another
\* never reach a state in which each spins on a lock the other holds.
C22_NoDeadlock ==
  \A t, u \in Cpus :
    ~(/\ task[t].fn = "bpf_program_attach"
      /\ task[u].fn = "kprobe_trap_handler"
      /\ SpinsOn(t, u)
      /\ SpinsOn(u, t))

====
